---------------------------- MODULE Spec2Model ----------------------------
(***************************************************************************)
(* State-machine model of tools/multi_login.py: fetch the login page,      *)
(* locate the first form, fill the field mapping heuristically, submit it  *)
(* and classify the outcome.  Strings that the script only passes along    *)
(* (URLs, field names, field values, cookie names and values) are TLA+     *)
(* strings; strings the script transforms or searches (the form's method   *)
(* attribute, the response body) are tuples of one-character strings, so   *)
(* that str.lower and the substring test are computed, not assumed.        *)
(***************************************************************************)
EXTENDS Integers, Sequences, FiniteSets, TLC

(***************************************************************************)
(* Bounds of the model.                                                    *)
(***************************************************************************)
\* longest list of <input> elements of a form drawn by FieldInit
MaxInputs == 3
\* most Set-Cookie headers one response carries
MaxSetCookies == 1

(***************************************************************************)
(* Python values.                                                          *)
(***************************************************************************)
\* Python's None where a string is expected (an absent attribute, no --action)
None == "<None>"
\* None where a character tuple is expected (an absent method attribute)
NoneChars == <<None>>
\* exit_code while the process is still running
Running == -1

\* truth value of an optional string: None and "" are falsy
Truthy(x) == x # None /\ x # ""

UpperCase == <<"A","B","C","D","E","F","G","H","I","J","K","L","M",
               "N","O","P","Q","R","S","T","U","V","W","X","Y","Z">>
LowerCase == <<"a","b","c","d","e","f","g","h","i","j","k","l","m",
               "n","o","p","q","r","s","t","u","v","w","x","y","z">>

\* str.lower on one character
LowerChar(c) ==
    IF \E i \in 1..Len(UpperCase) : UpperCase[i] = c
    THEN LowerCase[CHOOSE i \in 1..Len(UpperCase) : UpperCase[i] = c]
    ELSE c

\* str.lower
Lower(s) == [i \in 1..Len(s) |-> LowerChar(s[i])]

\* sub in s
Contains(s, sub) ==
    \E i \in 0..(Len(s) - Len(sub)) :
        \A j \in 1..Len(sub) : s[i + j] = sub[j]

(***************************************************************************)
(* Literals of the script.                                                 *)
(***************************************************************************)
csrf_name_candidates == <<"csrf", "csrf_token", "_csrf", "authenticity_token", "token">>
common_user_fields == <<"username", "user", "email", "login">>
common_pass_fields == <<"password", "pass", "pwd">>
PostChars == <<"p","o","s","t">>
LogoutChars == <<"l","o","g","o","u","t">>
DashboardChars == <<"d","a","s","h","b","o","a","r","d">>

(***************************************************************************)
(* The field mapping (the dict `inputs`) is a function from its keys to    *)
(* their values.                                                           *)
(***************************************************************************)
EmptyDict == [k \in {} |-> ""]

\* d[k] = v
DictSet(d, k, v) == (k :> v) @@ d

\* the dict built by lines 47-53 from the form's <input> elements in order
RECURSIVE BuildInputsFrom(_, _)
BuildInputsFrom(elems, d) ==
    IF elems = <<>> THEN d
    ELSE LET inp == Head(elems)
             name == inp.name
             val == IF inp.value = None THEN "" ELSE inp.value
         IN  IF ~Truthy(name)
             THEN BuildInputsFrom(Tail(elems), d)
             ELSE BuildInputsFrom(Tail(elems), DictSet(d, name, val))

\* the first element of cands that is a key of d, else None (for ... break ... else)
RECURSIVE FirstPresent(_, _)
FirstPresent(cands, d) ==
    IF cands = <<>> THEN None
    ELSE IF Head(cands) \in DOMAIN d THEN Head(cands)
    ELSE FirstPresent(Tail(cands), d)

\* any(k in d for k in cands)
AnyPresent(cands, d) == \E i \in 1..Len(cands) : cands[i] \in DOMAIN d

\* InjectNamed without the break: every candidate present is overwritten
InjectNamedAll(d, cands, credential) ==
    [k \in DOMAIN d |->
        IF \E i \in 1..Len(cands) : cands[i] = k THEN credential ELSE d[k]]

\* lines 67-70 and 75-78: overwrite the first candidate present
InjectNamed(d, cands, credential) ==
    LET f == FirstPresent(cands, d)
    IN  IF f = None THEN d ELSE DictSet(d, f, credential)

\* form.find_all("input", {"type": t})
FindAllByType(elems, t) == SelectSeq(elems, LAMBDA e : e.type = t)

\* lines 81-86 and 87-91: the type-based fallback
InjectFallback(d, cands, elems, t, credential) ==
    IF AnyPresent(cands, d) THEN d
    ELSE LET found == FindAllByType(elems, t)
         IN  IF found = <<>> THEN d
             ELSE DictSet(d, found[1].name, credential)

\* ChooseAction with the form's action attribute taking precedence
ChooseActionFormFirst(args_action, form_action, login_page) ==
    IF Truthy(form_action) THEN form_action
    ELSE IF Truthy(args_action) THEN args_action
    ELSE login_page

\* line 45: args.action or form.get("action") or args.login_page
ChooseAction(args_action, form_action, login_page) ==
    IF Truthy(args_action) THEN args_action
    ELSE IF Truthy(form_action) THEN form_action
    ELSE login_page

\* ChooseMethod without the .lower()
ChooseMethodNoLower(method_attr) ==
    IF method_attr = NoneChars THEN PostChars ELSE method_attr

\* line 46: form.get("method", "post").lower()
ChooseMethod(method_attr) ==
    Lower(IF method_attr = NoneChars THEN PostChars ELSE method_attr)

(***************************************************************************)
(* The session's cookie jar: a sequence of <<name, value>> with distinct   *)
(* names, in the order get_dict() yields them.                             *)
(***************************************************************************)
\* the jar after one Set-Cookie: a known name is replaced in place
SetCookie(jar, c) ==
    IF \E i \in 1..Len(jar) : jar[i][1] = c[1]
    THEN [i \in 1..Len(jar) |-> IF jar[i][1] = c[1] THEN c ELSE jar[i]]
    ELSE Append(jar, c)

RECURSIVE SetCookies(_, _)
SetCookies(jar, cs) ==
    IF cs = <<>> THEN jar ELSE SetCookies(SetCookie(jar, Head(cs)), Tail(cs))

\* line 106: "; ".join([f"{k}={v}" for k, v in cookies.items()])
RECURSIVE CookieStr(_)
CookieStr(jar) ==
    IF jar = <<>> THEN ""
    ELSE IF Len(jar) = 1 THEN jar[1][1] \o "=" \o jar[1][2]
    ELSE jar[1][1] \o "=" \o jar[1][2] \o "; " \o CookieStr(Tail(jar))

\* Verdict with the body searched as it stands, without .lower()
VerdictCaseSensitive(jar, body) ==
    IF jar # <<>> THEN "cookies"
    ELSE IF Contains(body, LogoutChars) \/ Contains(body, DashboardChars)
    THEN "marker"
    ELSE "failed"

\* lines 105 and 111: which branch of the result classifier is taken
Verdict(jar, body) ==
    IF jar # <<>> THEN "cookies"
    ELSE IF Contains(Lower(body), LogoutChars) \/ Contains(Lower(body), DashboardChars)
    THEN "marker"
    ELSE "failed"

(***************************************************************************)
(* The environment: command lines, pages and responses.                    *)
(***************************************************************************)
LoginPage == "http://site/login"
Username == "alice"
Password == "s3cret"
OverrideAction == "http://site/override"
RelativeAction == "/session"

\* sequences over S of length at most n
SeqsUpTo(S, n) == UNION {[1..k -> S] : k \in 0..n}

\* <input> elements a form may hold: name, type and value attributes
InputElems ==
    { [name |-> "_csrf",  type |-> "hidden",   value |-> "tok123"],
      [name |-> "token",  type |-> "text",     value |-> "tok123"],
      [name |-> "login",  type |-> "text",     value |-> "guest"],
      [name |-> "user",   type |-> "text",     value |-> None],
      [name |-> "pass",   type |-> "password", value |-> None],
      [name |-> "pwd",    type |-> "password", value |-> "old"],
      [name |-> "pass",   type |-> "text",     value |-> None],
      [name |-> "q",      type |-> "text",     value |-> None],
      [name |-> "pin",    type |-> "password", value |-> None],
      [name |-> None,     type |-> "text",     value |-> None],
      [name |-> None,     type |-> "password", value |-> None],
      [name |-> "",       type |-> "submit",   value |-> "Sign in"] }

\* a login form with a hidden token, and forms that take each fallback path
SampleInputLists ==
    { << [name |-> "_csrf",    type |-> "hidden",   value |-> "tok123"],
         [name |-> "username", type |-> "text",     value |-> None],
         [name |-> "password", type |-> "password", value |-> None] >>,
      << [name |-> "q",        type |-> "text",     value |-> None],
         [name |-> "pin",      type |-> "password", value |-> None] >>,
      << [name |-> None,       type |-> "text",     value |-> None],
         [name |-> "pass",     type |-> "password", value |-> None] >>,
      << >> }

MethodAttrs == { NoneChars, PostChars, <<"P","o","S","t">>, <<"G","E","T">>, <<>> }
FormActions == { None, "", RelativeAction }
ArgsActions == { None, "", OverrideAction }

\* the first <form> of a page, or NoForm
NoForm == [present |-> FALSE]
Form(action, method, elems) ==
    [present |-> TRUE, action |-> action, method |-> method, elems |-> elems]

Pages ==
    {NoForm} \cup
    { Form(a, m, e) : a \in FormActions, m \in MethodAttrs, e \in SampleInputLists }

CookieNames == {"sessionid", "auth"}
CookieValues == {"abc123", "xyz"}
SetCookieLists == SeqsUpTo(CookieNames \X CookieValues, MaxSetCookies)

Bodies ==
    { <<>>,
      <<"D","a","s","h","b","o","a","r","d">>,
      <<"<","a",">","L","O","G","O","U","T","<","/","a",">">>,
      <<"l","o","g"," ","o","u","t">>,
      <<"d","a","s","h","b","o","a","r">>,
      <<"B","a","d"," ","l","o","g","i","n">> }

\* requests refuses a URL without a scheme (MissingSchema) before sending
HasScheme(url) == url \in {LoginPage, OverrideAction}

(***************************************************************************)
(* State.                                                                  *)
(***************************************************************************)
VARIABLES
    pc,         \* the stage the script is about to run
    args,       \* argparse result: login_page, username, password, action
    r,          \* the page the session.get of line 34 returned
    form,       \* soup.find("form")
    action,     \* line 45
    method,     \* line 46
    inputs,     \* the field mapping
    csrf_name,  \* lines 57-62
    cookies,    \* session.cookies
    resp,       \* body of the submission response
    requests,   \* the session.get / session.post calls made so far
    stdout,     \* lines printed to standard output
    stderr,     \* lines printed to standard error
    exit_code   \* sys.exit status, Running before it

vars == <<pc, args, r, form, action, method, inputs, csrf_name, cookies, resp,
          requests, stdout, stderr, exit_code>>

\* print("OK cookie=" + cookie_str): a line is the tuple of the parts it is
\* formatted from, and reads as their concatenation
OkLine(cookie_str) == <<"OK cookie=", cookie_str>>

\* print("ERROR: <message>{}".format(e), file=sys.stderr)
ErrorLine(message, e) == <<"ERROR: ", message, e>>

Exit(code) ==
    /\ pc' = "done"
    /\ exit_code' = code

\* lines 23-31: arguments parsed, session created
Init ==
    /\ pc = "fetch"
    /\ args \in [login_page : {LoginPage}, username : {Username},
                 password : {Password}, action : ArgsActions]
    /\ r = NoForm
    /\ form = NoForm
    /\ action = None
    /\ method = NoneChars
    /\ inputs = EmptyDict
    /\ csrf_name = None
    /\ cookies = <<>>
    /\ resp = <<>>
    /\ requests = <<>>
    /\ stdout = <<>>
    /\ stderr = <<>>
    /\ exit_code = Running

\* One entry of the log of calls made on the session: the call's arguments, then
\* whether it raised and the Set-Cookie headers its response carried.
Call(kind, url, data, params, raised, set_cookies) ==
    [kind |-> kind, url |-> url, data |-> data, params |-> params,
     raised |-> raised, set_cookies |-> set_cookies]

\* the call of line 34
FetchRequest(a, raised, cs) ==
    Call("GET", a.login_page, EmptyDict, EmptyDict, raised, cs)

\* Fetch without the sys.exit(2) of line 37: the error is reported and the
\* script goes on
FetchNoExit ==
    /\ pc = "fetch"
    /\ \/ /\ \E page \in Pages, cs \in SetCookieLists :
                /\ r' = page
                /\ cookies' = SetCookies(cookies, cs)
                /\ requests' = Append(requests, FetchRequest(args, FALSE, cs))
          /\ UNCHANGED stderr
       \/ /\ requests' = Append(requests, FetchRequest(args, TRUE, <<>>))
          /\ stderr' = Append(stderr, ErrorLine("Failed to fetch login page: ", "ConnectionError"))
          /\ UNCHANGED <<r, cookies>>
    /\ pc' = "locate"
    /\ UNCHANGED <<args, form, action, method, inputs, csrf_name, resp, stdout,
                   exit_code>>

\* lines 33-37
Fetch ==
    /\ pc = "fetch"
    /\ \/ /\ \E page \in Pages, cs \in SetCookieLists :
                /\ r' = page
                /\ cookies' = SetCookies(cookies, cs)
                /\ requests' = Append(requests, FetchRequest(args, FALSE, cs))
          /\ pc' = "locate"
          /\ UNCHANGED <<stderr, exit_code>>
       \/ /\ requests' = Append(requests, FetchRequest(args, TRUE, <<>>))
          /\ stderr' = Append(stderr, ErrorLine("Failed to fetch login page: ", "ConnectionError"))
          /\ Exit(2)
          /\ UNCHANGED <<r, cookies>>
    /\ UNCHANGED <<args, form, action, method, inputs, csrf_name, resp, stdout>>

\* LocateForm without the check of lines 41-43: a page without a form is
\* handled as a form without attributes or inputs
LocateFormLenient ==
    /\ pc = "locate"
    /\ form' = IF r.present THEN r ELSE Form(None, NoneChars, <<>>)
    /\ pc' = "attrs"
    /\ UNCHANGED <<args, r, action, method, inputs, csrf_name, cookies, resp,
                   requests, stdout, stderr, exit_code>>

\* lines 39-43
LocateForm ==
    /\ pc = "locate"
    /\ form' = r
    /\ IF ~r.present
       THEN /\ stderr' = Append(stderr, ErrorLine("No form found on login page", ""))
            /\ Exit(3)
       ELSE /\ pc' = "attrs"
            /\ UNCHANGED <<stderr, exit_code>>
    /\ UNCHANGED <<args, r, action, method, inputs, csrf_name, cookies, resp,
                   requests, stdout>>

\* lines 45-46
ReadFormAttrs ==
    /\ pc = "attrs"
    /\ action' = ChooseAction(args.action, form.action, args.login_page)
    /\ method' = ChooseMethod(form.method)
    /\ pc' = "inputs"
    /\ UNCHANGED <<args, r, form, inputs, csrf_name, cookies, resp, requests,
                   stdout, stderr, exit_code>>

\* lines 47-53
BuildInputs ==
    /\ pc = "inputs"
    /\ inputs' = BuildInputsFrom(form.elems, EmptyDict)
    /\ pc' = "csrf"
    /\ UNCHANGED <<args, r, form, action, method, csrf_name, cookies, resp,
                   requests, stdout, stderr, exit_code>>

\* lines 55-62
DetectCsrf ==
    /\ pc = "csrf"
    /\ csrf_name' = FirstPresent(csrf_name_candidates, inputs)
    /\ pc' = "inject_user"
    /\ UNCHANGED <<args, r, form, action, method, inputs, cookies, resp,
                   requests, stdout, stderr, exit_code>>

\* lines 64-73
InjectUser ==
    /\ pc = "inject_user"
    /\ inputs' = InjectNamed(inputs, common_user_fields, args.username)
    /\ pc' = "inject_pass"
    /\ UNCHANGED <<args, r, form, action, method, csrf_name, cookies, resp,
                   requests, stdout, stderr, exit_code>>

\* lines 75-78
InjectPass ==
    /\ pc = "inject_pass"
    /\ inputs' = InjectNamed(inputs, common_pass_fields, args.password)
    /\ pc' = "fallback_user"
    /\ UNCHANGED <<args, r, form, action, method, csrf_name, cookies, resp,
                   requests, stdout, stderr, exit_code>>

\* lines 80-86
FallbackUser ==
    /\ pc = "fallback_user"
    /\ inputs' = InjectFallback(inputs, common_user_fields, form.elems, "text",
                                args.username)
    /\ pc' = "fallback_pass"
    /\ UNCHANGED <<args, r, form, action, method, csrf_name, cookies, resp,
                   requests, stdout, stderr, exit_code>>

\* lines 87-91
FallbackPass ==
    /\ pc = "fallback_pass"
    /\ inputs' = InjectFallback(inputs, common_pass_fields, form.elems, "password",
                                args.password)
    /\ pc' = "submit"
    /\ UNCHANGED <<args, r, form, action, method, csrf_name, cookies, resp,
                   requests, stdout, stderr, exit_code>>

\* the call of line 96 or of line 98
SubmitRequest(m, a, d, raised, cs) ==
    IF m = PostChars
    THEN Call("POST", a, d, EmptyDict, raised, cs)
    ELSE Call("GET", a, EmptyDict, d, raised, cs)

\* lines 93-101
Submit ==
    /\ pc = "submit"
    /\ \/ /\ HasScheme(action)
          /\ \E body \in Bodies, cs \in SetCookieLists :
                /\ resp' = body
                /\ cookies' = SetCookies(cookies, cs)
                /\ requests' = Append(requests,
                                      SubmitRequest(method, action, inputs, FALSE, cs))
          /\ pc' = "classify"
          /\ UNCHANGED <<stderr, exit_code>>
       \/ /\ requests' = Append(requests,
                                SubmitRequest(method, action, inputs, TRUE, <<>>))
          /\ stderr' = Append(stderr, ErrorLine("Login submission failed: ",
                                  IF HasScheme(action) THEN "ConnectionError"
                                                       ELSE "MissingSchema"))
          /\ Exit(4)
          /\ UNCHANGED <<resp, cookies>>
    /\ UNCHANGED <<args, r, form, action, method, inputs, csrf_name, stdout>>

\* Classify with the failure branch exiting with the submission's code 4
ClassifySameCode ==
    /\ pc = "classify"
    /\ LET v == Verdict(cookies, resp)
       IN  CASE v = "cookies" ->
                  /\ stdout' = Append(stdout, OkLine(CookieStr(cookies)))
                  /\ Exit(0)
                  /\ UNCHANGED stderr
             [] v = "marker" ->
                  /\ stdout' = Append(stdout, OkLine(""))
                  /\ Exit(0)
                  /\ UNCHANGED stderr
             [] OTHER ->
                  /\ stderr' = Append(stderr, ErrorLine("Login likely failed", ""))
                  /\ Exit(4)
                  /\ UNCHANGED stdout
    /\ UNCHANGED <<args, r, form, action, method, inputs, csrf_name, cookies, resp,
                   requests>>

\* lines 103-116
Classify ==
    /\ pc = "classify"
    /\ LET v == Verdict(cookies, resp)
       IN  CASE v = "cookies" ->
                  /\ stdout' = Append(stdout, OkLine(CookieStr(cookies)))
                  /\ Exit(0)
                  /\ UNCHANGED stderr
             [] v = "marker" ->
                  /\ stdout' = Append(stdout, OkLine(""))
                  /\ Exit(0)
                  /\ UNCHANGED stderr
             [] OTHER ->
                  /\ stderr' = Append(stderr, ErrorLine("Login likely failed", ""))
                  /\ Exit(5)
                  /\ UNCHANGED stdout
    /\ UNCHANGED <<args, r, form, action, method, inputs, csrf_name, cookies, resp,
                   requests>>

Next ==
    \/ Fetch
    \/ LocateForm
    \/ ReadFormAttrs
    \/ BuildInputs
    \/ DetectCsrf
    \/ InjectUser
    \/ InjectPass
    \/ FallbackUser
    \/ FallbackPass
    \/ Submit
    \/ Classify

Spec == Init /\ [][Next]_vars

\* The script is one sequential thread: the statement it is at is executed, and
\* each blocking call returns or raises.
FairSpec == Spec /\ WF_vars(Next)

(***************************************************************************)
(* The field heuristic alone (lines 47-91), started where line 47 starts,  *)
(* for every form of at most MaxInputs <input> elements drawn from         *)
(* InputElems.                                                             *)
(***************************************************************************)
FieldForms == { Form(None, NoneChars, e) : e \in SeqsUpTo(InputElems, MaxInputs) }

FieldInit ==
    /\ pc = "inputs"
    /\ args = [login_page |-> LoginPage, username |-> Username,
               password |-> Password, action |-> None]
    /\ r \in FieldForms
    /\ form = r
    /\ action = ChooseAction(args.action, form.action, args.login_page)
    /\ method = ChooseMethod(form.method)
    /\ inputs = EmptyDict
    /\ csrf_name = None
    /\ cookies = <<>>
    /\ resp = <<>>
    /\ requests = <<FetchRequest(args, FALSE, <<>>)>>
    /\ stdout = <<>>
    /\ stderr = <<>>
    /\ exit_code = Running

FieldNext ==
    \/ BuildInputs
    \/ DetectCsrf
    \/ InjectUser
    \/ InjectPass
    \/ FallbackUser
    \/ FallbackPass

FieldSpec == FieldInit /\ [][FieldNext]_vars

(***************************************************************************)
(* What a form declares, read off its <input> elements without running the *)
(* script: the vocabulary the properties below are stated in.              *)
(***************************************************************************)
\* names declared by the form's named inputs
DeclaredKeys(elems) ==
    {elems[i].name : i \in 1..Len(elems)} \ {None, ""}

\* the default the form declares for name k: the value attribute of the last
\* input of that name, the empty string when it has none
DeclaredDefault(elems, k) ==
    LET last == CHOOSE i \in 1..Len(elems) :
                    /\ elems[i].name = k
                    /\ \A j \in (i + 1)..Len(elems) : elems[j].name # k
    IN  IF elems[last].value = None THEN "" ELSE elems[last].value

HasCandidate(cands, keys) == \E i \in 1..Len(cands) : cands[i] \in keys

\* the candidate of least rank among keys
FirstCandidate(cands, keys) ==
    cands[CHOOSE i \in 1..Len(cands) :
              /\ cands[i] \in keys
              /\ \A j \in 1..(i - 1) : cands[j] \notin keys]

\* the first input of type t exists and has no name attribute
FirstOfTypeIsNameless(elems, t) ==
    \E i \in 1..Len(elems) :
        /\ elems[i].type = t
        /\ elems[i].name = None
        /\ \A j \in 1..(i - 1) : elems[j].type # t

\* s is word written in some letter case (word is lower case)
IsInAnyCase(s, word) ==
    /\ Len(s) = Len(word)
    /\ \A j \in 1..Len(word) :
          \/ s[j] = word[j]
          \/ \E n \in 1..Len(LowerCase) : LowerCase[n] = word[j] /\ UpperCase[n] = s[j]

\* s contains word written in some letter case
HasInAnyCase(s, word) ==
    \E i \in 0..(Len(s) - Len(word)) :
        IsInAnyCase(SubSeq(s, i + 1, i + Len(word)), word)

\* the Set-Cookie headers of the calls made so far, in order of arrival
ReceivedCookies ==
    IF Len(requests) = 0 THEN <<>>
    ELSE IF Len(requests) = 1 THEN requests[1].set_cookies
    ELSE requests[1].set_cookies \o requests[2].set_cookies

\* "k=v" pairs of cs joined by "; ": one pair per name, in order of the name's
\* first arrival, with the value that arrived last
RECURSIVE JoinedFrom(_, _)
JoinedFrom(cs, from) ==
    LET firsts == {i \in from..Len(cs) : \A j \in 1..(i - 1) : cs[j][1] # cs[i][1]}
    IN  IF firsts = {} THEN ""
        ELSE LET i == CHOOSE x \in firsts : \A y \in firsts : x <= y
                 l == CHOOSE x \in 1..Len(cs) :
                          /\ cs[x][1] = cs[i][1]
                          /\ \A y \in (x + 1)..Len(cs) : cs[y][1] # cs[i][1]
                 rest == JoinedFrom(cs, i + 1)
             IN  cs[i][1] \o "=" \o cs[l][2] \o
                 (IF rest = "" THEN "" ELSE "; " \o rest)

FetchRaised == Len(requests) >= 1 /\ requests[1].raised
FetchReturned == Len(requests) >= 1 /\ ~requests[1].raised
SubmitRaised == Len(requests) >= 2 /\ requests[2].raised
SubmitReturned == Len(requests) >= 2 /\ ~requests[2].raised

(***************************************************************************)
(* C1.  For every form whose field mapping has a key among the CSRF        *)
(* candidates, the first such candidate's value in the payload about to be *)
(* submitted equals the default the form declares for it: no credential    *)
(* injection, named or type-based, overwrites it.                          *)
(***************************************************************************)
C1_CsrfValueKept ==
    (pc = "submit" /\ HasCandidate(csrf_name_candidates, DeclaredKeys(form.elems)))
    => LET c == FirstCandidate(csrf_name_candidates, DeclaredKeys(form.elems))
       IN  /\ c \in DOMAIN inputs
           /\ inputs[c] = DeclaredDefault(form.elems, c)

(***************************************************************************)
(* C2.  When no username candidate is a key of the field mapping and the   *)
(* first text input declares no name, the username fallback leaves the     *)
(* field mapping as it was (same keys, same values); likewise the password *)
(* fallback when the first password input declares no name.                *)
(***************************************************************************)
C2_NamelessFallbackIsNoOp ==
    [][ /\ ( /\ pc = "fallback_user"
             /\ ~HasCandidate(common_user_fields, DOMAIN inputs)
             /\ FirstOfTypeIsNameless(form.elems, "text") )
           => inputs' = inputs
        /\ ( /\ pc = "fallback_pass"
             /\ ~HasCandidate(common_pass_fields, DOMAIN inputs)
             /\ FirstOfTypeIsNameless(form.elems, "password") )
           => inputs' = inputs ]_vars

(***************************************************************************)
(* C3.  For every form whose field mapping has a username candidate key    *)
(* and a password candidate key, the payload has exactly the names the     *)
(* form's named inputs declare, the first username candidate present holds *)
(* the supplied username, the first password candidate present holds the   *)
(* supplied password, and every other key, later candidates included,      *)
(* holds the default the form declares.                                    *)
(***************************************************************************)
C3_NamedInjection ==
    LET keys == DeclaredKeys(form.elems)
    IN  ( /\ pc = "submit"
          /\ HasCandidate(common_user_fields, keys)
          /\ HasCandidate(common_pass_fields, keys) )
        => LET u == FirstCandidate(common_user_fields, keys)
               p == FirstCandidate(common_pass_fields, keys)
           IN  /\ DOMAIN inputs = keys
               /\ inputs[u] = args.username
               /\ inputs[p] = args.password
               /\ \A k \in keys \ {u, p} : inputs[k] = DeclaredDefault(form.elems, k)

\* a form with two username candidates and a password candidate went through
C3_Witness ==
    /\ pc = "submit"
    /\ DOMAIN inputs = {"user", "login", "pass"}
    /\ inputs["user"] = Username
    /\ inputs["login"] = "guest"
    /\ inputs["pass"] = Password

(***************************************************************************)
(* C4.  When the fetch of the login page raises, the run ends with exit    *)
(* code 2, the fetch is the only request of the run, and neither the form  *)
(* locator, the field heuristic nor the result classifier has run.         *)
(***************************************************************************)
C4_FetchFailureIsTerminal ==
    FetchRaised
    => /\ pc = "done"
       /\ exit_code = 2
       /\ Len(requests) = 1
       /\ form = NoForm /\ action = None /\ method = NoneChars
       /\ inputs = EmptyDict /\ csrf_name = None
       /\ resp = <<>> /\ cookies = <<>>
       /\ stdout = <<>>
       /\ Len(stderr) = 1

C4_Witness ==
    /\ FetchRaised
    /\ pc = "done"
    /\ exit_code = 2

(***************************************************************************)
(* C5.  When the fetched page holds no form, the run ends with exit code   *)
(* 3, prints no line beginning with OK, and issues no submission.          *)
(***************************************************************************)
C5_NoFormIsTerminal ==
    (FetchReturned /\ ~r.present /\ pc # "locate")
    => /\ pc = "done"
       /\ exit_code = 3
       /\ \A i \in 1..Len(stdout) : stdout[i][1] # "OK cookie="
       /\ Len(requests) = 1

\* a page without a form whose response did set a cookie
C5_Witness ==
    /\ FetchReturned
    /\ ~r.present
    /\ cookies # <<>>
    /\ pc = "done"
    /\ exit_code = 3

(***************************************************************************)
(* C6.  After a submission that returned, the outcome is decided in fixed  *)
(* order from the cookies received over both requests and the submission   *)
(* response body: with any cookie, "OK cookie=" followed by the key=value  *)
(* pairs joined by "; " and exit 0, whatever the body; else, with logout   *)
(* or dashboard in the body in any letter case, exactly "OK cookie=" and   *)
(* exit 0; else nothing on standard output and exit 5.                     *)
(***************************************************************************)
C6_Classification ==
    (pc = "done" /\ SubmitReturned)
    => IF ReceivedCookies # <<>>
       THEN /\ stdout = << <<"OK cookie=", JoinedFrom(ReceivedCookies, 1)>> >>
            /\ exit_code = 0
       ELSE IF HasInAnyCase(resp, LogoutChars) \/ HasInAnyCase(resp, DashboardChars)
       THEN /\ stdout = << <<"OK cookie=", "">> >>
            /\ exit_code = 0
       ELSE /\ stdout = <<>>
            /\ exit_code = 5

\* one cookie from the login page, one from the submission, no marker in the body
C6_Witness ==
    /\ pc = "done"
    /\ SubmitReturned
    /\ requests[1].set_cookies = << <<"sessionid", "abc123">> >>
    /\ requests[2].set_cookies = << <<"auth", "xyz">> >>
    /\ resp = <<"B","a","d"," ","l","o","g","i","n">>
    /\ stdout = << <<"OK cookie=", "sessionid=abc123; auth=xyz">> >>
    /\ exit_code = 0

(***************************************************************************)
(* C7.  The submission is one request whose kind follows the form's method *)
(* attribute compared without regard to letter case: absent or "post", one *)
(* POST with the field mapping as body; any other declared value, one GET  *)
(* with the field mapping as query parameters and no body.  Either way the *)
(* payload is the complete field mapping.                                  *)
(***************************************************************************)
C7_RequestKind ==
    Len(requests) >= 2
    => /\ Len(requests) = 2
       /\ IF form.method = NoneChars \/ IsInAnyCase(form.method, PostChars)
          THEN /\ requests[2].kind = "POST"
               /\ requests[2].data = inputs
               /\ requests[2].params = EmptyDict
          ELSE /\ requests[2].kind = "GET"
               /\ requests[2].params = inputs
               /\ requests[2].data = EmptyDict

\* a form with method="GET" and a non-empty field mapping was submitted
C7_Witness ==
    /\ Len(requests) = 2
    /\ form.method = <<"G","E","T">>
    /\ requests[2].kind = "GET"
    /\ requests[2].params # EmptyDict
    /\ requests[2].params = inputs

(***************************************************************************)
(* C8.  Every run ends, with exactly one of the exit codes 0, 2, 3, 4, 5:  *)
(* 2 for a failed fetch, 3 for no form, 4 for a failed submission, 5 for a *)
(* login judged failed; a line beginning with "OK cookie=" is on standard  *)
(* output exactly when the code is 0, an "ERROR: " line on standard error  *)
(* exactly when it is not; and nothing runs after the exit.                *)
(***************************************************************************)
C8_Outcome ==
    IF pc = "done"
    THEN /\ exit_code \in {0, 2, 3, 4, 5}
         /\ exit_code = 2 <=> FetchRaised
         /\ exit_code = 3 <=> (FetchReturned /\ ~r.present)
         /\ exit_code = 4 <=> SubmitRaised
         /\ exit_code = 5 <=> (SubmitReturned /\ stdout = <<>>)
         /\ (\E i \in 1..Len(stdout) : stdout[i][1] = "OK cookie=") <=> exit_code = 0
         /\ (\E i \in 1..Len(stderr) : stderr[i][1] = "ERROR: ") <=> exit_code # 0
         /\ Len(stdout) + Len(stderr) = 1
    ELSE /\ exit_code = Running
         /\ stdout = <<>>
         /\ stderr = <<>>

C8_ExitCodes ==
    /\ []C8_Outcome
    /\ [][pc # "done"]_vars
    /\ <>(pc = "done")

\* a submission that raised ended the run with code 4
C8_Witness ==
    /\ pc = "done"
    /\ SubmitRaised
    /\ exit_code = 4
    /\ stderr = <<ErrorLine("Login submission failed: ", "ConnectionError")>>

(***************************************************************************)
(* C9.  The submission goes to the --action override when one is given and *)
(* not empty, else to the form's action attribute when present and not     *)
(* empty, else to the login page URL; the chosen value is the request URL  *)
(* as it stands.                                                           *)
(***************************************************************************)
C9_TargetPrecedence ==
    Len(requests) >= 2
    => /\ Truthy(args.action) => requests[2].url = args.action
       /\ (~Truthy(args.action) /\ Truthy(form.action))
             => requests[2].url = form.action
       /\ (~Truthy(args.action) /\ ~Truthy(form.action))
             => requests[2].url = args.login_page

\* an override won over a form that declares an action of its own
C9_Witness ==
    /\ Len(requests) = 2
    /\ args.action = OverrideAction
    /\ form.action = RelativeAction
    /\ requests[2].url = OverrideAction

(***************************************************************************)
(* C10.  For every form whose field mapping has a password candidate key,  *)
(* the first password candidate present holds the supplied password in the *)
(* payload about to be submitted, also when no username candidate is       *)
(* present and the username fallback picks the first text input: the       *)
(* username is never written over the field that received the password.    *)
(***************************************************************************)
C10_PasswordKept ==
    (pc = "submit" /\ HasCandidate(common_pass_fields, DeclaredKeys(form.elems)))
    => LET p == FirstCandidate(common_pass_fields, DeclaredKeys(form.elems))
       IN  /\ p \in DOMAIN inputs
           /\ inputs[p] = args.password


=============================================================================
